---- MODULE Spec2Model ----
(***************************************************************************)
(* Model of check_schema.py: a linear diagnostic script that reads         *)
(* DATABASE_URL, connects, runs a catalog query, a row-count query and a   *)
(* 7-day aggregate query against post_attribution, prints a report and     *)
(* exits.  The database is the environment: every answer it gives is a     *)
(* nondeterministic input drawn when the query is executed.                *)
(*                                                                         *)
(* Nullable values (Python None, SQL NULL) are options: <<>> is None and   *)
(* <<v>> holds v.  Exact SQL numerics are pairs <<num, den>>.              *)
(* engagement_rate is kept in units of 1/10000 (0.1 is 1000), so that the  *)
(* printed percentage with two decimals is an integer number of 0.01%.     *)
(***************************************************************************)
EXTENDS Integers, Sequences, FiniteSets

VARIABLES
    DATABASE_URL,     \* os.getenv('DATABASE_URL'): None, "" or a URL
    pc,               \* position of the script
    conn,             \* "none" | "open" | "closed"
    cur,              \* "none" | "open" | "closed"
    columns,          \* column names fetched from the catalog, in ordinal order
    missing_columns,  \* the list computed at line 41
    count,            \* option: the fetched COUNT(*)
    window,           \* rows of the table inside the 7-day window, as the aggregate saw them
    stats,            \* option: the fetched aggregate row
    e,                \* option: the exception bound by the handler
    out,              \* lines printed so far
    ops,              \* database operations issued so far, with their outcome
    released,         \* resources closed so far, in order
    exitStatus,       \* option: the process exit status
    uncaught          \* TRUE iff an exception left the script unhandled

vars == <<DATABASE_URL, pc, conn, cur, columns, missing_columns, count, window,
          stats, e, out, ops, released, exitStatus, uncaught>>

----------------------------------------------------------------------------
(* Bounds *)

MaxRows == 2

----------------------------------------------------------------------------
(* Options and sequences *)

None == <<>>

Some(v) == <<v>>

IsNone(o) == Len(o) = 0

Range(s) == {s[i] : i \in 1..Len(s)}

SeqsUpTo(S, n) == UNION {[1..k -> S] : k \in 0..n}

----------------------------------------------------------------------------
(* The table under inspection *)

essential_columns ==
    <<"engagement_rate", "impressions", "followers_gained",
      "hook_pattern", "topic", "generator_used">>

\* Columns the 7-day aggregate query names.
AggregateColumns ==
    {"engagement_rate", "impressions", "followers_gained", "posted_at"}

ColumnNames == Range(essential_columns) \cup {"posted_at"}

\* Physical (ordinal_position) orders a table may have been created with.
OrdinalOrders ==
    { <<"engagement_rate", "impressions", "followers_gained", "hook_pattern",
        "topic", "generator_used", "posted_at">>,
      <<"posted_at", "generator_used", "topic", "hook_pattern",
        "followers_gained", "impressions", "engagement_rate">>,
      <<"topic", "posted_at", "engagement_rate", "generator_used",
        "impressions", "hook_pattern", "followers_gained">> }

\* Rows the window can hold: nullable metrics, a non-null timestamp.
Rows ==
    [engagement_rate : {None, Some(0), Some(1000)},
     impressions : {None, Some(100)},
     followers_gained : {None, Some(2)},
     posted_at : {1, 2}]

----------------------------------------------------------------------------
(* Python truthiness and the exception hierarchy *)

\* Mutant of Falsy: `DATABASE_URL == ""`, which lets None through.
FalsyEmptyStringOnly(url) == ~IsNone(url) /\ url[1] = ""

\* `not DATABASE_URL`: None and the empty string are both falsy.
Falsy(url) == IsNone(url) \/ url[1] = ""

\* Direct base class of each exception class the script can meet
\* (psycopg2's DatabaseError layer is folded into Error).
Bases ==
    [SystemExit |-> "BaseException",
     Exception |-> "BaseException",
     Error |-> "Exception",
     OperationalError |-> "Error",
     UndefinedColumn |-> "Error",
     TypeError |-> "Exception"]

RECURSIVE IsSubclass(_, _)
IsSubclass(cls, base) ==
    \/ cls = base
    \/ cls \in DOMAIN Bases /\ IsSubclass(Bases[cls], base)

\* Mutant of HandlerCatches: a bare `except:`, which also binds SystemExit.
HandlerCatchesBaseException(exc) == IsSubclass(exc, "BaseException")

\* Mutant of HandlerCatches: `except psycopg2.OperationalError`.
HandlerCatchesOperationalOnly(exc) == IsSubclass(exc, "OperationalError")

\* `except Exception as e`: SystemExit is not an Exception.
HandlerCatches(exc) == IsSubclass(exc, "Exception")

----------------------------------------------------------------------------
(* Missing essential columns (lines 38-41) *)

\* Python `x in list`: a linear search.
Contains(list, x) == \E i \in 1..Len(list) : list[i] = x

RECURSIVE MissingFrom(_, _, _)
MissingFrom(essential, existing, i) ==
    IF i > Len(essential) THEN <<>>
    ELSE (IF Contains(existing, essential[i]) THEN <<>> ELSE <<essential[i]>>)
         \o MissingFrom(essential, existing, i + 1)

RECURSIVE ReverseSeq(_)
ReverseSeq(s) == IF Len(s) = 0 THEN <<>> ELSE Append(ReverseSeq(Tail(s)), Head(s))

\* Mutant of MissingColumns: the difference built by prepending, which
\* reverses the essential order.
MissingColumnsReversed(essential, existing) ==
    ReverseSeq(MissingFrom(essential, existing, 1))

\* [col for col in essential_columns if col not in existing_columns]
MissingColumns(essential, existing) == MissingFrom(essential, existing, 1)

----------------------------------------------------------------------------
(* The SQL aggregates of the 7-day query (lines 57-64) *)

Coalesce(v, d) == IF IsNone(v) THEN d ELSE v[1]

RECURSIVE SumNonNull(_, _)
SumNonNull(vals, i) ==
    IF i > Len(vals) THEN 0
    ELSE (IF IsNone(vals[i]) THEN 0 ELSE vals[i][1]) + SumNonNull(vals, i + 1)

CountNonNull(vals) == Cardinality({i \in 1..Len(vals) : ~IsNone(vals[i])})

\* SQL AVG: NULL inputs are skipped; NULL when no input is left.
SqlAvg(vals) ==
    IF CountNonNull(vals) = 0 THEN None
    ELSE Some(<<SumNonNull(vals, 1), CountNonNull(vals)>>)

\* Mutant of AvgCoalesced: AVG(col), which leaves NULL rows out of the
\* divisor.
AvgSkippingNulls(rows, col) == SqlAvg([i \in 1..Len(rows) |-> rows[i][col]])

\* AVG(COALESCE(col, 0))
AvgCoalesced(rows, col) ==
    SqlAvg([i \in 1..Len(rows) |-> Some(Coalesce(rows[i][col], 0))])

\* MAX(posted_at): NULL over no rows.
SqlMax(rows) ==
    IF Len(rows) = 0 THEN None
    ELSE Some(CHOOSE m \in {rows[i].posted_at : i \in 1..Len(rows)} :
                \A i \in 1..Len(rows) : rows[i].posted_at <= m)

Aggregate(rows) ==
    [total_posts |-> Len(rows),
     avg_engagement |-> AvgCoalesced(rows, "engagement_rate"),
     avg_views |-> AvgCoalesced(rows, "impressions"),
     avg_followers |-> AvgCoalesced(rows, "followers_gained"),
     most_recent_post |-> SqlMax(rows)]

----------------------------------------------------------------------------
(* Formatting of the aggregate row (lines 68-73) *)

\* Mutant of OrZero: the fallback left out, float(None) then raises.
OrZeroDropped(v) == v

\* `v or 0`: None and a zero Decimal are both replaced by 0.
OrZero(v) == IF IsNone(v) \/ v[1][1] = 0 THEN Some(<<0, 1>>) ELSE v

\* Nearest integer to num/den, ties to even, as a fixed-point format
\* rounds an exactly representable value.
RoundHalfEven(num, den) ==
    LET q == num \div den
        r == num % den
    IN  IF 2 * r < den THEN q
        ELSE IF 2 * r > den THEN q + 1
        ELSE IF q % 2 = 0 THEN q ELSE q + 1

\* f"{float(x)*100:.2f}%" as a number of 0.01%; x is in units of 1/10000.
FormatPercent2(x) == RoundHalfEven(x[1] * 100 * 100, x[2] * 10000)

\* f"{float(x):.0f}"
FormatFixed0(x) == RoundHalfEven(x[1], x[2])

\* f"{float(x):.1f}" as a number of tenths
FormatFixed1(x) == RoundHalfEven(x[1] * 10, x[2])

Line(tag, arg) == [line |-> tag, arg |-> arg]

\* Lines 68-73 in order; float(None) raises, so the lines stop before the
\* first value that is still None after the fallback.
StatLines(s) ==
    LET a == OrZero(s.avg_engagement)
        b == OrZero(s.avg_views)
        c == OrZero(s.avg_followers)
    IN  <<Line("stats_header", None), Line("posts", s.total_posts)>>
        \o (IF IsNone(a) THEN <<>>
            ELSE <<Line("avg_engagement", FormatPercent2(a[1]))>>
        \o (IF IsNone(b) THEN <<>>
            ELSE <<Line("avg_views", FormatFixed0(b[1]))>>
        \o (IF IsNone(c) THEN <<>>
            ELSE <<Line("avg_followers", FormatFixed1(c[1])),
                   Line("most_recent", s.most_recent_post)>>)))

NumStatLines == 6

----------------------------------------------------------------------------
(* Control flow *)

Urls == {None, Some(""), Some("postgresql://db/xbot")}

Init ==
    /\ DATABASE_URL \in Urls
    /\ pc = "getenv"
    /\ conn = "none"
    /\ cur = "none"
    /\ columns = <<>>
    /\ missing_columns = <<>>
    /\ count = None
    /\ window = <<>>
    /\ stats = None
    /\ e = None
    /\ out = <<>>
    /\ ops = <<>>
    /\ released = <<>>
    /\ exitStatus = None
    /\ uncaught = FALSE

Op(name, ok) == [op |-> name, ok |-> ok]

\* An exception (or the SystemExit of exit(code)) raised inside the try
\* block: bound by the handler when it matches, otherwise it ends the
\* process; an exception other than SystemExit ends it with a traceback
\* and status 1.
Raise(exc, code) ==
    IF HandlerCatches(exc)
    THEN /\ pc' = "except"
         /\ e' = Some(exc)
         /\ UNCHANGED <<exitStatus, uncaught>>
    ELSE /\ pc' = "done"
         /\ exitStatus' = Some(code)
         /\ uncaught' = (exc # "SystemExit")
         /\ UNCHANGED e

\* Lines 7-12.
GetEnv ==
    /\ pc = "getenv"
    /\ IF Falsy(DATABASE_URL)
       THEN /\ out' = Append(out, Line("no_database_url", None))
            /\ pc' = "done"
            /\ exitStatus' = Some(1)
       ELSE /\ out' = Append(out, Line("checking", None))
            /\ pc' = "connect"
            /\ UNCHANGED exitStatus
    /\ UNCHANGED <<DATABASE_URL, conn, cur, columns, missing_columns, count,
                   window, stats, e, ops, released, uncaught>>

\* Line 16.
Connect ==
    /\ pc = "connect"
    /\ \E ok \in BOOLEAN :
         /\ ops' = Append(ops, Op("connect", ok))
         /\ IF ok
            THEN /\ conn' = "open"
                 /\ pc' = "cursor"
                 /\ UNCHANGED <<e, exitStatus, uncaught>>
            ELSE /\ Raise("OperationalError", 1)
                 /\ UNCHANGED conn
    /\ UNCHANGED <<DATABASE_URL, cur, columns, missing_columns, count, window,
                   stats, out, released>>

\* Line 17.
OpenCursor ==
    /\ pc = "cursor"
    /\ cur' = "open"
    /\ pc' = "catalog"
    /\ UNCHANGED <<DATABASE_URL, conn, columns, missing_columns, count, window,
                   stats, e, out, ops, released, exitStatus, uncaught>>

\* The rows of information_schema.columns for a table with column set S
\* created in physical order ord.
CatalogRows(S, ord) ==
    LET InTable(c) == c \in S
    IN  SelectSeq(ord, InTable)

\* Lines 20-27.
QueryColumns ==
    /\ pc = "catalog"
    /\ \E ok \in BOOLEAN :
         /\ ops' = Append(ops, Op("catalog", ok))
         /\ IF ok
            THEN /\ \E S \in SUBSET ColumnNames, ord \in OrdinalOrders :
                       columns' = CatalogRows(S, ord)
                 /\ pc' = "check"
                 /\ UNCHANGED <<e, exitStatus, uncaught>>
            ELSE /\ Raise("OperationalError", 1)
                 /\ UNCHANGED columns
    /\ UNCHANGED <<DATABASE_URL, conn, cur, missing_columns, count, window,
                   stats, out, released>>

\* Lines 29-47.
CheckColumns ==
    /\ pc = "check"
    /\ IF Len(columns) = 0
       THEN /\ out' = Append(out, Line("table_missing", None))
            /\ Raise("SystemExit", 1)
            /\ UNCHANGED missing_columns
       ELSE /\ missing_columns' = MissingColumns(essential_columns, columns)
            /\ out' = out \o <<Line("found", columns),
                               IF Len(missing_columns') # 0
                               THEN Line("missing", missing_columns')
                               ELSE Line("all_exist", None)>>
            /\ pc' = "count"
            /\ UNCHANGED <<e, exitStatus, uncaught>>
    /\ UNCHANGED <<DATABASE_URL, conn, cur, columns, count, window, stats,
                   ops, released>>

\* Mutant of HasData: `if count >= 0`.
HasDataNonNegative(n) == n >= 0

\* `if count > 0` (line 54).
HasData(n) == n > 0

\* Lines 50-54.
QueryCount ==
    /\ pc = "count"
    /\ \E ok \in BOOLEAN :
         /\ ops' = Append(ops, Op("count", ok))
         /\ IF ok
            THEN /\ \E n \in 0..MaxRows :
                       /\ count' = Some(n)
                       /\ out' = Append(out, Line("total", n))
                       /\ pc' = IF HasData(n) THEN "aggregate" ELSE "close_cur"
                 /\ UNCHANGED <<e, exitStatus, uncaught>>
            ELSE /\ Raise("OperationalError", 1)
                 /\ UNCHANGED <<count, out>>
    /\ UNCHANGED <<DATABASE_URL, conn, cur, columns, missing_columns, window,
                   stats, released>>

\* Lines 56-67.  The server rejects the statement when the table lacks a
\* column it names; otherwise it answers over the rows inside the window,
\* which are some of the table's `count` rows.
QueryStats ==
    /\ pc = "aggregate"
    /\ \E ok \in BOOLEAN :
         /\ ops' = Append(ops, Op("aggregate",
                                  ok /\ AggregateColumns \subseteq Range(columns)))
         /\ IF ~ok
            THEN /\ Raise("OperationalError", 1)
                 /\ UNCHANGED <<window, stats>>
            ELSE IF ~(AggregateColumns \subseteq Range(columns))
            THEN /\ Raise("UndefinedColumn", 1)
                 /\ UNCHANGED <<window, stats>>
            ELSE /\ \E w \in SeqsUpTo(Rows, count[1]) :
                       /\ window' = w
                       /\ stats' = Some(Aggregate(w))
                 /\ pc' = "print_stats"
                 /\ UNCHANGED <<e, exitStatus, uncaught>>
    /\ UNCHANGED <<DATABASE_URL, conn, cur, columns, missing_columns, count,
                   out, released>>

\* Lines 68-73.
PrintStats ==
    /\ pc = "print_stats"
    /\ out' = out \o StatLines(stats[1])
    /\ IF Len(StatLines(stats[1])) = NumStatLines
       THEN /\ pc' = "close_cur"
            /\ UNCHANGED <<e, exitStatus, uncaught>>
       ELSE Raise("TypeError", 1)
    /\ UNCHANGED <<DATABASE_URL, conn, cur, columns, missing_columns, count,
                   window, stats, ops, released>>

\* Mutant of CloseCursor: the cursor is left open.
CloseCursorSkipped ==
    /\ pc = "close_cur"
    /\ pc' = "close_conn"
    /\ UNCHANGED <<DATABASE_URL, conn, cur, released, columns, missing_columns,
                   count, window, stats, e, out, ops, exitStatus, uncaught>>

\* Line 75.
CloseCursor ==
    /\ pc = "close_cur"
    /\ cur' = "closed"
    /\ released' = Append(released, "cur")
    /\ pc' = "close_conn"
    /\ UNCHANGED <<DATABASE_URL, conn, columns, missing_columns, count, window,
                   stats, e, out, ops, exitStatus, uncaught>>

\* Line 76, then the end of the script: status 0.
CloseConnection ==
    /\ pc = "close_conn"
    /\ conn' = "closed"
    /\ released' = Append(released, "conn")
    /\ pc' = "done"
    /\ exitStatus' = Some(0)
    /\ UNCHANGED <<DATABASE_URL, cur, columns, missing_columns, count, window,
                   stats, e, out, ops, uncaught>>

\* Mutant of HandleException: a failed connection attempt is retried once.
HandleExceptionRetry ==
    /\ pc = "except"
    /\ out' = Append(out, Line("database_error", e[1]))
    /\ IF Len(ops) = 1
       THEN pc' = "connect" /\ UNCHANGED exitStatus
       ELSE pc' = "done" /\ exitStatus' = Some(1)
    /\ UNCHANGED <<DATABASE_URL, conn, cur, columns, missing_columns, count,
                   window, stats, e, ops, released, uncaught>>

\* Lines 78-80.
HandleException ==
    /\ pc = "except"
    /\ out' = Append(out, Line("database_error", e[1]))
    /\ pc' = "done"
    /\ exitStatus' = Some(1)
    /\ UNCHANGED <<DATABASE_URL, conn, cur, columns, missing_columns, count,
                   window, stats, e, ops, released, uncaught>>

Next ==
    \/ GetEnv
    \/ Connect
    \/ OpenCursor
    \/ QueryColumns
    \/ CheckColumns
    \/ QueryCount
    \/ QueryStats
    \/ PrintStats
    \/ CloseCursor
    \/ CloseConnection
    \/ HandleException

Spec == Init /\ [][Next]_vars

----------------------------------------------------------------------------
(* Vocabulary of the properties *)

Printed(tag) == \E i \in 1..Len(out) : out[i].line = tag

\* The values printed on the lines carrying `tag`.
PrintedArgs(tag) == {out[i].arg : i \in {j \in 1..Len(out) : out[j].line = tag}}

Issued(name) == \E i \in 1..Len(ops) : ops[i].op = name

Succeeded(name) == \E i \in 1..Len(ops) : ops[i].op = name /\ ops[i].ok

SomeOpFailed == \E i \in 1..Len(ops) : ~ops[i].ok

OpNames == [i \in 1..Len(ops) |-> ops[i].op]

OpOrder == <<"connect", "catalog", "count", "aggregate">>

IsPrefix(s, t) == Len(s) <= Len(t) /\ \A i \in 1..Len(s) : s[i] = t[i]

\* A failure of the environment (server unreachable, connection lost), as
\* opposed to one the table's schema causes.
TransientFailure == ~IsNone(e) /\ e[1] = "OperationalError"

\* Position of a name in the essential list.
EssentialIndex(c) == CHOOSE i \in 1..Len(essential_columns) : essential_columns[i] = c

RECURSIVE SetSum(_)
SetSum(S) == IF S = {} THEN 0 ELSE LET x == CHOOSE y \in S : TRUE IN x + SetSum(S \ {x})

\* Total of engagement_rate over the window with NULL counted as 0: every
\* value weighted by the number of rows carrying it.
EngagementTotal ==
    SetSum({x * Cardinality({i \in 1..Len(window) :
                               window[i].engagement_rate = Some(x)})
            : x \in {0, 1000}})

----------------------------------------------------------------------------
(* C1 *)

\* C1: whenever the connection succeeded, the catalog returned at least one
\* column and no environment failure occurred, the finished run has exit
\* status 0 and has released cursor and connection, whichever essential
\* columns are missing and whatever the row count.
C1_MissingColumnsNeverFatal ==
    (pc = "done" /\ Len(columns) > 0 /\ ~TransientFailure)
        => (exitStatus = Some(0) /\ released = <<"cur", "conn">>)

----------------------------------------------------------------------------
(* C2 *)

\* C2: while DATABASE_URL is absent no database operation is ever issued and
\* no connection exists; the run goes from the lookup straight to its end,
\* and ends with exit status 1.
C2_ConfigGate ==
    IsNone(DATABASE_URL)
        => /\ ops = <<>>
           /\ conn = "none"
           /\ pc \in {"getenv", "done"}
           /\ pc = "done" => (exitStatus = Some(1) /\ Printed("no_database_url"))

C2_Witness == IsNone(DATABASE_URL) /\ pc = "done" /\ exitStatus = Some(1)

----------------------------------------------------------------------------
(* C3 *)

\* C3: when the catalog query succeeded with zero columns, only connect and
\* the catalog query were ever issued, the handler is never entered, and the
\* finished run printed the table-doesn't-exist message, not the
\* database-error message, and has exit status 1.
C3_TableGate ==
    (Succeeded("catalog") /\ Len(columns) = 0)
        => /\ OpNames = <<"connect", "catalog">>
           /\ pc \in {"check", "done"}
           /\ pc = "done" => /\ Printed("table_missing")
                             /\ ~Printed("database_error")
                             /\ ~Printed("total")
                             /\ exitStatus = Some(1)

C3_Witness ==
    Succeeded("catalog") /\ Len(columns) = 0 /\ pc = "done" /\ Printed("table_missing")

----------------------------------------------------------------------------
(* C4 *)

\* C4: the aggregate query has been issued only if the row count fetched is
\* greater than zero, and it is issued or about to be whenever that count is
\* greater than zero; with a count of 0 it is never issued, the row-count
\* line prints 0 and the finished run has exit status 0.
C4_ZeroRowShortCircuit ==
    /\ Issued("aggregate") => (~IsNone(count) /\ count[1] > 0)
    /\ (~IsNone(count) /\ count[1] > 0) => (Issued("aggregate") \/ pc = "aggregate")
    /\ (~IsNone(count) /\ count[1] = 0)
          => /\ ~Issued("aggregate")
             /\ PrintedArgs("total") = {0}
             /\ ~Printed("stats_header")
             /\ pc = "done" => exitStatus = Some(0)

C4_Witness ==
    ~IsNone(count) /\ count[1] = 0 /\ pc = "done" /\ exitStatus = Some(0)

----------------------------------------------------------------------------
(* C5 *)

\* C5: once the columns are checked, the missing list holds exactly the
\* essential names absent from the existing list, each once, in the
\* essential list's order, whatever the order of the existing list; the
\* warning is printed iff the list is non-empty (and reports that list); a
\* table with only engagement_rate and topic yields
\* [impressions, followers_gained, hook_pattern, generator_used].
C5_MissingIsOrderedDifference ==
    Printed("found")
        => /\ Range(missing_columns) = Range(essential_columns) \ Range(columns)
           /\ \A i, j \in 1..Len(missing_columns) :
                 i < j => EssentialIndex(missing_columns[i])
                              < EssentialIndex(missing_columns[j])
           /\ Printed("missing") <=> Len(missing_columns) > 0
           /\ Printed("all_exist") <=> Len(missing_columns) = 0
           /\ Printed("missing") => PrintedArgs("missing") = {missing_columns}
           /\ Range(columns) = {"engagement_rate", "topic"}
                 => missing_columns = <<"impressions", "followers_gained",
                                        "hook_pattern", "generator_used">>

C5_Witness ==
    /\ Printed("missing")
    /\ columns = <<"topic", "engagement_rate">>
    /\ missing_columns = <<"impressions", "followers_gained",
                           "hook_pattern", "generator_used">>

----------------------------------------------------------------------------
(* C6 *)

\* The positions of the script in program order, the handler after the
\* try block.
PcOrder ==
    <<"getenv", "connect", "cursor", "catalog", "check", "count", "aggregate",
      "print_stats", "close_cur", "close_conn", "except", "done">>

Rank(p) == CHOOSE i \in 1..Len(PcOrder) : PcOrder[i] = p

C6_ExitCodes ==
    /\ ~uncaught
    /\ pc # "done" => ENABLED Next
    /\ pc = "done" => exitStatus \in {Some(0), Some(1)}
    /\ pc # "done" => IsNone(exitStatus)
    /\ SomeOpFailed => /\ pc \in {"except", "done"}
                       /\ pc = "done" => /\ Printed("database_error")
                                         /\ exitStatus = Some(1)
    /\ ~IsNone(e) => (pc = "done" => Printed("database_error") /\ exitStatus = Some(1))
    /\ exitStatus = Some(1)
          => \/ Falsy(DATABASE_URL) /\ Printed("no_database_url")
             \/ Succeeded("catalog") /\ Len(columns) = 0 /\ Printed("table_missing")
             \/ ~IsNone(e) /\ Printed("database_error")

\* C6: every run ends (a step is possible until the end is reached and each
\* step moves strictly forward through the script), with exit status 0 or 1
\* and no exception escaping; a failure of the connection attempt or of a
\* query leads to the database-error message and status 1; status 1 occurs
\* only for missing configuration, a missing table, or such a failure.
C6_GenericErrorPath ==
    /\ [](C6_ExitCodes)
    /\ [][Rank(pc') > Rank(pc)]_vars

C6_Witness ==
    /\ pc = "done"
    /\ ~IsNone(e) /\ e[1] = "UndefinedColumn"
    /\ Printed("database_error")
    /\ exitStatus = Some(1)

----------------------------------------------------------------------------
(* C7 *)

\* C7: the printed 7-day average engagement is the 2-decimal percentage
\* nearest to (sum of engagement_rate over the window's rows, NULL as 0)
\* divided by the number of all rows of the window; for the rows NULL and
\* 0.1 it is 5.00%.
C7_NullSafeAverage ==
    (Printed("avg_engagement") /\ Len(window) > 0)
        => /\ \A v \in PrintedArgs("avg_engagement") :
                 /\ 2 * (v * Len(window) - EngagementTotal) <= Len(window)
                 /\ 2 * (EngagementTotal - v * Len(window)) <= Len(window)
           /\ (/\ Len(window) = 2
               /\ IsNone(window[1].engagement_rate)
               /\ window[2].engagement_rate = Some(1000))
                 => PrintedArgs("avg_engagement") = {500}

C7_Witness ==
    /\ Printed("avg_engagement")
    /\ Len(window) = 2
    /\ IsNone(window[1].engagement_rate)
    /\ window[2].engagement_rate = Some(1000)
    /\ PrintedArgs("avg_engagement") = {500}

----------------------------------------------------------------------------
(* C8 *)

\* C8: a run has exit status 0 only with the cursor closed and then the
\* connection closed, after the row-count query succeeded and the aggregate
\* query, when issued, succeeded and was reported; the connection is never
\* closed before the cursor, and nothing is released before the queries are
\* over.
C8_ReleaseBeforeSuccess ==
    /\ exitStatus = Some(0)
          => /\ released = <<"cur", "conn">>
             /\ cur = "closed" /\ conn = "closed"
             /\ Succeeded("count")
             /\ Issued("aggregate") => (Succeeded("aggregate") /\ Printed("most_recent"))
    /\ conn = "closed" => cur = "closed"
    /\ IsPrefix(released, <<"cur", "conn">>)
    /\ released # <<>> => pc \in {"close_conn", "done"}

C8_Witness ==
    /\ exitStatus = Some(0)
    /\ released = <<"cur", "conn">>
    /\ Succeeded("aggregate")

----------------------------------------------------------------------------
(* C9 *)

C9_Order ==
    /\ IsPrefix(OpNames, OpOrder)
    /\ \A i \in 1..Len(ops) : i < Len(ops) => ops[i].ok
    /\ SomeOpFailed => pc \in {"except", "done"}
    /\ (pc = "done" /\ Printed("no_database_url")) => ops = <<>>
    /\ (pc = "done" /\ Printed("table_missing")) => Len(ops) = 2

\* C9: database operations are issued in the order connect, catalog query,
\* row-count query, aggregate query, each at most once and only after every
\* earlier one succeeded; once an operation has failed or the run has ended,
\* no step issues another operation.
C9_StrictSequence ==
    /\ [](C9_Order)
    /\ [][(SomeOpFailed \/ pc \in {"except", "done"}) => ops' = ops]_vars

C9_Witness ==
    /\ pc = "done"
    /\ OpNames = <<"connect", "catalog", "count">>
    /\ ~ops[3].ok

----------------------------------------------------------------------------
(* C10 *)

\* C10: when the row count is greater than zero and the aggregate query
\* succeeded over an empty window, it returned 0 posts, null averages and a
\* null most-recent value; the handler is not entered; the report prints
\* the three averages as 0 and the most-recent value as null; the finished
\* run has exit status 0.
C10_EmptyWindow ==
    (~IsNone(stats) /\ Len(window) = 0)
        => /\ count[1] > 0
           /\ stats[1].total_posts = 0
           /\ IsNone(stats[1].avg_engagement)
           /\ IsNone(stats[1].avg_views)
           /\ IsNone(stats[1].avg_followers)
           /\ IsNone(stats[1].most_recent_post)
           /\ pc \in {"print_stats", "close_cur", "close_conn", "done"}
           /\ pc # "print_stats"
                 => /\ PrintedArgs("posts") = {0}
                    /\ PrintedArgs("avg_engagement") = {0}
                    /\ PrintedArgs("avg_views") = {0}
                    /\ PrintedArgs("avg_followers") = {0}
                    /\ PrintedArgs("most_recent") = {None}
           /\ pc = "done" => exitStatus = Some(0)

C10_Witness ==
    /\ ~IsNone(stats) /\ Len(window) = 0
    /\ pc = "done"
    /\ exitStatus = Some(0)
    /\ PrintedArgs("avg_engagement") = {0}

====
